---- MODULE Spec2Model ----
(***************************************************************************)
(* Cluster membership control plane of lxd/cluster/membership.go:          *)
(* Bootstrap, Accept, Join, Assign, Rebalance, Handover, Leave and Purge   *)
(* over the replicated registry (the nodes table), the consensus roster,   *)
(* each member's node-local state and the cluster-DB exclusive lock.       *)
(*                                                                         *)
(* Bootstrap, Join and Assign run step by step on one member at a time     *)
(* (pc); the leader-side operations are single steps that run between two  *)
(* of them; List is a single step that runs at any time.                   *)
(***************************************************************************)
EXTENDS Integers, Sequences, FiniteSets, TLC

\* The machines of the model; a machine is named by the address it listens on.
Nodes == {"a1", "a2", "a3", "a4"}

\* The machine whose local database becomes the cluster database.
Seed == "a1"

\* Registry ids run from 1 to MaxId.
MaxId == 6

\* At most MaxFaults collaborator failures are injected in a behaviour.
MaxFaults == 1

\* At most MaxPlans calls of Rebalance and Handover have an effect in a behaviour.
MaxPlans == 2

MaxVoters == 3

MaxStandBys == 2

RaftVoter == "voter"

RaftStandBy == "stand-by"

RaftSpare == "spare"

\* Address of the single registry row of a database that is not clustered.
Unclustered == "0.0.0.0"

\* The name an operator gives the member listening on address a.
NameOf(a) == "m" \o a

\* Schema and API-extension counts of this build.
SchemaVersion == 1

APIExtensions == 1

VARIABLES
    nodes,          \* the replicated nodes table: a set of rows
    roster,         \* the consensus configuration: a sequence of raft nodes
    nextId,         \* next id the nodes table hands out
    offers,         \* per address, the roster the last successful Accept returned for it
    plan,           \* the roster the last Rebalance or Handover proposed, with its address
    ret,            \* the result of the leader-side operation that has just returned
    clusterAddress, \* per machine, cluster.https_address of its local config
    raftNodes,      \* per machine, the local raft_nodes table
    certs,          \* per machine, the cluster.* files present in <vardir>
    lock,           \* per machine, whether the cluster-DB exclusive lock is held
    gw,             \* per machine, the state of its gateway
    nodeID,         \* per machine, the node id bound to its cluster-DB handle
    opName,         \* the step-wise operation in progress or just returned
    opNode,         \* the machine it runs on
    args,           \* its arguments
    pc,             \* its position
    err,            \* its result
    info,           \* its own raft node (Join, Assign)
    trace,          \* the events it has performed, in order
    accepted,       \* ids whose Accept transaction committed
    joined,         \* ids whose Join returned success
    bootstrapped,   \* machines on which Bootstrap returned success
    faults,         \* collaborator failures injected so far
    plans,          \* calls of Rebalance and Handover that changed something so far
    rt,             \* the round trip Accept, Join, Leave, Purge under way
    calls           \* the last call of Rebalance, Handover or Accept, and the same call before it

vars == <<nodes, roster, nextId, offers, plan, ret, clusterAddress, raftNodes,
          certs, lock, gw, nodeID, opName, opNode, args, pc, err, info, trace,
          accepted, joined, bootstrapped, faults, plans, rt, calls>>

cluster == <<nodes, roster, nextId>>

local == <<clusterAddress, raftNodes, certs, lock, gw, nodeID>>

flight == <<offers, plan>>

slot == <<opName, opNode, args, pc, err, info, trace>>

history == <<accepted, joined, bootstrapped>>


----------------------------------------------------------------------------
\* Data

RaftNode(id, address, role) == [id |-> id, address |-> address, role |-> role]

NoInfo == RaftNode(0, "", RaftSpare)

Row(id, name, address, pending, database) ==
    [id |-> id, name |-> name, address |-> address, pending |-> pending,
     database |-> database, schema |-> SchemaVersion, api |-> APIExtensions]

NoRet == [op |-> "none", at |-> "", err |-> "none", address |-> "", roster |-> <<>>,
          txs |-> 0]

NoPlan == [address |-> "", roster |-> <<>>]

NoArgs == [name |-> "", roster |-> <<>>]

\* No round trip under way. A round trip records the address x that Accept
\* took, the registry and the roster before that Accept, and how far it got:
\* 1 accepted, 2 joined, 3 left, 4 purged.
NoTrip == [stage |-> 0, x |-> "", nodes |-> {}, roster |-> <<>>]

Count(r, role) == Cardinality({i \in DOMAIN r : r[i].role = role})

Addresses(r) == {r[i].address : i \in DOMAIN r}

Ids(r) == {r[i].id : i \in DOMAIN r}

\* Index of the first, and of the last, entry of r with the given address.
FirstAt(r, address) ==
    CHOOSE i \in DOMAIN r :
        r[i].address = address /\ \A j \in DOMAIN r : r[j].address = address => i <= j

LastAt(r, address) ==
    CHOOSE i \in DOMAIN r :
        r[i].address = address /\ \A j \in DOMAIN r : r[j].address = address => j <= i

\* r without the entries of the given id
\* Seeded fault: the roster keeps the entry that was to be removed.
WithoutNothing(r, id) == r

\* Seeded fault: the removal drops the entry and those that follow it.
RECURSIVE WithoutRest(_, _)
WithoutRest(r, id) ==
    IF r = <<>> THEN <<>>
    ELSE IF Head(r).id = id THEN <<>>
    ELSE <<Head(r)>> \o WithoutRest(Tail(r), id)

RECURSIVE Without(_, _)
Without(r, id) ==
    IF r = <<>> THEN <<>>
    ELSE IF Head(r).id = id THEN Without(Tail(r), id)
    ELSE <<Head(r)>> \o Without(Tail(r), id)

SetRole(r, id, role) ==
    [i \in DOMAIN r |-> IF r[i].id = id THEN [r[i] EXCEPT !.role = role] ELSE r[i]]

SetRoleAt(r, k, role) ==
    [i \in DOMAIN r |-> IF i = k THEN [r[i] EXCEPT !.role = role] ELSE r[i]]

----------------------------------------------------------------------------
\* Collaborators outside membership.go: the gateway, the database handles,
\* the files of <vardir>.

\* Machines on which <vardir>/server.ca exists.
ServerCA == {Seed}

\* gateway.IsDqliteNode(): whether machine n runs a dqlite engine.
IsDqliteNode(n) == gw[n] \in {"memory", "dqlite"}

\* gateway.init(): the engine starts in memory when the machine is not
\* clustered, as a dqlite node when the local raft_nodes lists the machine,
\* and not at all otherwise.
GatewayInit(n, rn) ==
    IF rn = <<>> THEN "memory"
    ELSE IF clusterAddress[n] \in Addresses(rn) THEN "dqlite"
    ELSE "client"

\* Whether the cluster-DB handle of machine n reaches the replicated database.
UsesClusterDB(n) == n = Seed \/ gw[n] \in {"dqlite", "client"}

\* state.Cluster.Transaction waits until the exclusive lock is released.
CanTransact(n) == ~lock[n]

\* tx.Nodes(), tx.NodeByName, tx.NodeByAddress: the members that are not
\* pending. tx.NodePendingByAddress: the pending ones.
Members == {m \in nodes : ~m.pending}

NodeByName(name) == {m \in Members : m.name = name}

NodeByAddress(address) == {m \in Members : m.address = address}

NodePendingByAddress(address) == {m \in nodes : m.pending /\ m.address = address}

RowsById(id) == {m \in nodes : m.id = id}

\* tx.NodeAddress(): the address of the row bound to the handle.
NodeAddress(n) ==
    IF ~UsesClusterDB(n) THEN Unclustered
    ELSE IF RowsById(nodeID[n]) = {} THEN ""
    ELSE (CHOOSE m \in RowsById(nodeID[n]) : TRUE).address

\* gateway.currentRaftNodes() fails on a machine that has no consensus roster.
HasRoster == roster # <<>>

----------------------------------------------------------------------------
\* Preconditions

membershipCheckNoLeftoverClusterCert(n) ==
    IF certs[n] # {} THEN "leftover cluster certificate" ELSE "none"

\* Seeded fault: the local check does not read raft_nodes.
membershipCheckNodeStateForBootstrapOrJoinByAddress(n, address) ==
    IF address = "" THEN "no cluster.https_address" ELSE "none"

membershipCheckNodeStateForBootstrapOrJoin(n, address) ==
    LET hasClusterAddress == address # ""
        hasRaftNodes == Len(raftNodes[n]) > 0
    IN  IF ~hasClusterAddress /\ hasRaftNodes THEN "leftover entries in raft_nodes"
        ELSE IF ~hasClusterAddress THEN "no cluster.https_address"
        ELSE IF hasRaftNodes THEN "already part of a cluster"
        ELSE "none"

membershipCheckClusterStateForBootstrapOrJoin ==
    IF Cardinality(Members) # 1 THEN "leftover entries in nodes" ELSE "none"

\* Seeded fault: the check of Accept does not compare the versions.
membershipCheckClusterStateForAcceptAnyVersion(name, address, schema, api) ==
    IF Cardinality(Members) = 1 /\ (\E m \in Members : m.address = Unclustered)
    THEN "clustering isn't enabled"
    ELSE LET bad == {m \in Members : m.name = name \/ m.address = address}
             first == CHOOSE m \in bad : \A o \in bad : m.id <= o.id
         IN  IF bad = {} THEN "none"
             ELSE IF first.name = name
             THEN "the cluster already has a member with this name"
             ELSE "the cluster already has a member with this address"

membershipCheckClusterStateForAccept(name, address, schema, api) ==
    IF Cardinality(Members) = 1 /\ (\E m \in Members : m.address = Unclustered)
    THEN "clustering isn't enabled"
    ELSE LET bad == {m \in Members : \/ m.name = name \/ m.address = address
                                     \/ m.schema # schema \/ m.api # api}
             \* the loop returns at the first member, in id order, that fails a check
             first == CHOOSE m \in bad : \A o \in bad : m.id <= o.id
         IN  IF bad = {} THEN "none"
             ELSE IF first.name = name
             THEN "the cluster already has a member with this name"
             ELSE IF first.address = address
             THEN "the cluster already has a member with this address"
             ELSE "the joining server version doesn't match"

\* Seeded fault: the check of Leave does not count the members.
membershipCheckClusterStateForLeaveOfLast(busy) ==
    IF busy THEN "node still has containers or images" ELSE "none"

\* busy: tx.NodeIsEmpty reports containers or images on the member.
membershipCheckClusterStateForLeave(busy) ==
    IF busy THEN "node still has containers or images"
    ELSE IF Cardinality(Members) = 1 THEN "node is the only node in the cluster"
    ELSE "none"

----------------------------------------------------------------------------
\* The step-wise operations (Bootstrap, Join, Assign) share one slot. What an
\* operation returned is seen by its caller in the state that follows its
\* last step, and is gone after that.

Quiet == ret = NoRet /\ (pc \in {"done", "hung"} => opName = "none")

Idle == Quiet /\ pc = "done"

Begin(name, n, a) ==
    /\ Idle
    /\ opName' = name
    /\ opNode' = n
    /\ args' = a

Return(e) ==
    /\ pc' = "done"
    /\ err' = e

Goto(at) ==
    /\ pc' = at
    /\ err' = "none"

Running(name, n, at) == ret = NoRet /\ opName = name /\ opNode = n /\ pc = at

\* The return values leave scope.
Settle ==
    /\ ~Quiet
    /\ ret' = NoRet
    /\ IF pc \in {"done", "hung"}
       THEN /\ opName' = "none"
            /\ opNode' = Seed
            /\ args' = NoArgs
            /\ pc' = "done"
            /\ err' = "none"
            /\ info' = NoInfo
            /\ trace' = <<>>
       ELSE UNCHANGED slot
    /\ UNCHANGED <<cluster, flight, local, history>>

----------------------------------------------------------------------------
\* Bootstrap

\* Lines 30-94: parameter check, certificate check, node transaction,
\* cluster transaction.
\* Seeded fault: Bootstrap checks neither the certificate files nor raft_nodes.
BootstrapUnchecked(n, name) == IF name = "" THEN "empty name" ELSE "none"

\* Lines 32-58: the checks Bootstrap makes before it writes anything.
BootstrapPreconditions(n, name) ==
    IF name = "" THEN "empty name"
    ELSE IF membershipCheckNoLeftoverClusterCert(n) # "none"
    THEN membershipCheckNoLeftoverClusterCert(n)
    ELSE membershipCheckNodeStateForBootstrapOrJoin(n, clusterAddress[n])

BootstrapStart(n, name) ==
    /\ n = Seed \/ raftNodes[n] # <<>>
    /\ Begin("Bootstrap", n, [NoArgs EXCEPT !.name = name])
    /\ info' = NoInfo
    /\ LET address == clusterAddress[n]
           e2 == BootstrapPreconditions(n, name)
           e3 == membershipCheckClusterStateForBootstrapOrJoin
       IN  IF e2 # "none"
           THEN /\ Return(e2)
                /\ trace' = <<>>
                /\ UNCHANGED <<cluster, local>>
           ELSE \* tx.RaftNodeFirst(address)
                /\ raftNodes' = [raftNodes EXCEPT ![n] = <<RaftNode(1, address, RaftVoter)>>]
                /\ IF ~CanTransact(n)
                   THEN /\ Goto("hung")
                        /\ trace' = <<>>
                        /\ UNCHANGED cluster
                   ELSE IF e3 # "none" \/ RowsById(1) = {}
                   THEN /\ Return(IF e3 # "none" THEN e3 ELSE "failed to update cluster node")
                        /\ trace' = <<"tx">>
                        /\ UNCHANGED cluster
                   ELSE \* tx.NodeUpdate(1, name, address); tx.NodeAddRole(1, database)
                        /\ nodes' = {IF m.id = 1
                                     THEN [m EXCEPT !.name = name, !.address = address,
                                                    !.database = TRUE]
                                     ELSE m : m \in nodes}
                        /\ Goto("b_enter")
                        /\ trace' = <<"tx">>
                        /\ UNCHANGED <<roster, nextId>>
                /\ UNCHANGED <<clusterAddress, certs, lock, gw, nodeID>>
    /\ UNCHANGED <<flight, ret, history>>

\* Lines 101-104: state.Cluster.EnterExclusive()
BootstrapEnter(n) ==
    /\ Running("Bootstrap", n, "b_enter")
    /\ IF lock[n]
       THEN /\ Return("failed to acquire cluster database lock")
            /\ UNCHANGED <<lock, trace>>
       ELSE /\ lock' = [lock EXCEPT ![n] = TRUE]
            /\ trace' = Append(trace, "enter")
            /\ Goto("b_reconf")
    /\ UNCHANGED <<cluster, flight, ret, clusterAddress, raftNodes, certs,
                   gw, nodeID, opName, opNode, args, info, history>>

\* The cluster.* symlinks of lines 126-134, in the order they are made.
Symlinks(n) == IF n \in ServerCA THEN <<".crt", ".key", ".ca">> ELSE <<".crt", ".key">>

\* Lines 106-134: gateway.Shutdown(), gateway.init(), gateway.waitLeadership(),
\* the cluster certificate symlinks. made is the number of symlinks created
\* before one fails.
BootstrapReconfigure(n, fault, made) ==
    /\ Running("Bootstrap", n, "b_reconf")
    /\ fault \in {"none", "shutdown", "init", "leadership", "symlink"}
    /\ made \in 0..(Len(Symlinks(n)) - 1)
    /\ fault # "symlink" => made = 0
    /\ IF fault = "shutdown"
       THEN /\ Return("failed to shutdown gRPC SQL gateway")
            /\ UNCHANGED <<gw, roster, certs, trace>>
       ELSE IF fault = "init"
       THEN /\ Return("failed to re-initialize gRPC SQL gateway")
            /\ gw' = [gw EXCEPT ![n] = "down"]
            /\ trace' = Append(trace, "shutdown")
            /\ UNCHANGED <<roster, certs>>
       ELSE /\ gw' = [gw EXCEPT ![n] = GatewayInit(n, raftNodes[n])]
            /\ roster' = raftNodes[n]
            /\ trace' = trace \o <<"shutdown", "init">>
            /\ IF fault = "leadership"
               THEN /\ Return("waitLeadership failed")
                    /\ UNCHANGED certs
               ELSE IF fault = "symlink"
               THEN /\ Return("failed to create cluster cert symlink")
                    /\ certs' = [certs EXCEPT ![n] =
                                    @ \cup {Symlinks(n)[i] : i \in 1..made}]
               ELSE /\ Goto("b_exit")
                    /\ certs' = [certs EXCEPT ![n] =
                                    @ \cup {Symlinks(n)[i] : i \in DOMAIN Symlinks(n)}]
    /\ UNCHANGED <<nodes, nextId, flight, ret, clusterAddress, raftNodes,
                   lock, nodeID, opName, opNode, args, info, history>>

\* Lines 141-149: state.Cluster.ExitExclusive running tx.Nodes().
BootstrapExit(n, fault) ==
    /\ Running("Bootstrap", n, "b_exit")
    /\ fault \in {"none", "tx"}
    /\ lock' = [lock EXCEPT ![n] = FALSE]
    /\ trace' = Append(trace, IF fault = "none" THEN "commit" ELSE "abort")
    /\ Return(IF fault = "none" THEN "none" ELSE "cluster database initialization failed")
    /\ bootstrapped' = IF fault = "none" THEN bootstrapped \cup {n} ELSE bootstrapped
    /\ UNCHANGED <<cluster, flight, ret, clusterAddress, raftNodes, certs,
                   gw, nodeID, opName, opNode, args, info, accepted, joined>>

----------------------------------------------------------------------------
\* Accept

\* The leader-side operations (Accept, Rebalance, Handover, Leave, Purge) are
\* served by a voter whose gateway runs; before there is a roster, by the seed.
\* They are serialised with Bootstrap, Join and Assign.
CanServe(l) ==
    /\ Idle
    /\ UsesClusterDB(l)
    /\ gw[l] # "down"
    /\ IF HasRoster
       THEN \E i \in DOMAIN roster : roster[i].address = l /\ roster[i].role = RaftVoter
       ELSE l = Seed

Result(op, l, e, address, r, txs) ==
    [op |-> op, at |-> l, err |-> e, address |-> address, roster |-> r, txs |-> txs]

\* Seeded fault: Accept does not look at the size of the roster.
AcceptRoleByVoters(r) ==
    IF Count(r, RaftVoter) < MaxVoters THEN RaftVoter
    ELSE IF Count(r, RaftStandBy) < MaxStandBys THEN RaftStandBy
    ELSE RaftSpare

\* Lines 202-219: the role of the accepted node, by capacity.
AcceptRole(r) ==
    IF Len(r) > 1 /\ Count(r, RaftVoter) < MaxVoters THEN RaftVoter
    ELSE IF Count(r, RaftStandBy) < MaxStandBys THEN RaftStandBy
    ELSE RaftSpare

\* tx.NodeAddWithArch: the nodes table holds a name and an address once.
CanInsert(name, address) == \A m \in nodes : m.name # name /\ m.address # address

\* Seeded fault: the transaction of Accept inserts whatever it is given.
AcceptErrorLax(name, address, schema, api) ==
    IF Cardinality(Members) = 1 /\ (\E m \in Members : m.address = Unclustered)
    THEN "clustering isn't enabled"
    ELSE "none"

\* Lines 169-190: what the transaction of Accept fails with, if it fails.
AcceptError(name, address, schema, api) ==
    IF membershipCheckClusterStateForAccept(name, address, schema, api) # "none"
    THEN membershipCheckClusterStateForAccept(name, address, schema, api)
    ELSE IF ~CanInsert(name, address)
    THEN "failed to insert new node into the database"
    ELSE "none"

\* Lines 158-222. fault "raft" is a failure of gateway.currentRaftNodes().
Accept(l, name, address, schema, api, fault) ==
    /\ CanServe(l)
    /\ fault \in {"none", "raft"}
    /\ LET e0 == IF name = "" THEN "empty name"
                 ELSE IF address = "" THEN "empty address" ELSE "none"
           e2 == AcceptError(name, address, schema, api)
           id == nextId
           node == RaftNode(id, address, AcceptRole(roster))
       IN  IF e0 # "none"
           THEN /\ ret' = Result("Accept", l, e0, "", <<>>, 0)
                /\ UNCHANGED <<cluster, offers, accepted>>
           ELSE /\ CanTransact(l)
                /\ IF e2 # "none"
                   THEN /\ ret' = Result("Accept", l, e2, "", <<>>, 1)
                        /\ UNCHANGED <<cluster, offers, accepted>>
                   ELSE /\ id <= MaxId
                        \* tx.NodeAddWithArch; tx.NodePending(id, true)
                        /\ nodes' = nodes \cup {Row(id, name, address, TRUE, FALSE)}
                        /\ nextId' = nextId + 1
                        /\ accepted' = accepted \cup {id}
                        /\ UNCHANGED roster
                        /\ IF fault = "raft" \/ ~HasRoster
                           THEN /\ ret' = Result("Accept", l,
                                             "failed to get raft nodes from the log",
                                             "", <<>>, 1)
                                /\ UNCHANGED offers
                           ELSE /\ ret' = Result("Accept", l, "none", address,
                                                 Append(roster, node), 1)
                                /\ offers' = [offers EXCEPT ![address] = Append(roster, node)]
    /\ UNCHANGED <<plan, local, slot, joined, bootstrapped>>

----------------------------------------------------------------------------
\* Join

\* Lines 322-327: the entry of raftNodes the pointer info ends up at. The loop
\* takes the address of its loop variable: where the variable is one per loop
\* it holds the last entry of raftNodes when the loop ends, where it is one
\* per iteration it holds the last entry with the local address.
JoinInfos(r, address) ==
    IF address \notin Addresses(r) THEN {}
    ELSE {r[Len(r)], r[LastAt(r, address)]}

\* Lines 231-291: parameter check, node transaction (local precondition,
\* tx.RaftNodesReplace), read-only transaction on the cluster-DB handle.
JoinStart(n, name, r, fault) ==
    /\ fault \in {"none", "tx"}
    /\ Begin("Join", n, [name |-> name, roster |-> r])
    /\ info' = NoInfo
    /\ LET address == clusterAddress[n]
           e1 == IF name = "" THEN "empty name"
                 ELSE membershipCheckNodeStateForBootstrapOrJoin(n, address)
       IN  IF e1 # "none"
           THEN /\ Return(e1)
                /\ trace' = <<>>
                /\ UNCHANGED raftNodes
           ELSE /\ raftNodes' = [raftNodes EXCEPT ![n] = r]
                /\ IF ~CanTransact(n)
                   THEN /\ Goto("hung")
                        /\ trace' = <<>>
                   ELSE IF fault = "tx"
                   THEN /\ Return("failed to read the local configuration")
                        /\ trace' = <<"tx">>
                   ELSE /\ Goto("j_enter")
                        /\ trace' = <<"tx">>
    /\ UNCHANGED <<cluster, flight, ret, clusterAddress, certs, lock, gw,
                   nodeID, history>>

\* Lines 295-298: state.Cluster.EnterExclusive()
JoinEnter(n) ==
    /\ Running("Join", n, "j_enter")
    /\ IF lock[n]
       THEN /\ Return("failed to acquire cluster database lock")
            /\ UNCHANGED <<lock, trace>>
       ELSE /\ lock' = [lock EXCEPT ![n] = TRUE]
            /\ trace' = Append(trace, "enter")
            /\ Goto("j_reconf")
    /\ UNCHANGED <<cluster, flight, ret, clusterAddress, raftNodes, certs,
                   gw, nodeID, opName, opNode, args, info, history>>

\* client.Add(ctx, node): the leader appends the node with its role; it
\* refuses an id or an address the configuration already has.
CanAdd(node) == node.id \notin Ids(roster) /\ node.address \notin Addresses(roster)

\* Lines 303-348: gateway.Shutdown(), wipe of the data directory,
\* gateway.init(), the search for the own entry, FindLeader, client.Add.
JoinReconfigure(n, fault, inf) ==
    /\ Running("Join", n, "j_reconf")
    /\ fault \in {"none", "shutdown", "wipe", "init", "leader", "add"}
    /\ LET address == clusterAddress[n]
           infos == JoinInfos(raftNodes[n], address)
       IN  /\ inf \in infos \cup {NoInfo}
           /\ (inf = NoInfo) <=> (fault \in {"shutdown", "wipe", "init"} \/ infos = {})
           /\ infos = {} => fault \notin {"leader", "add"}
           /\ IF fault = "shutdown"
              THEN /\ Return("failed to shutdown gRPC SQL gateway")
                   /\ UNCHANGED <<gw, roster, trace, info>>
              ELSE IF fault = "wipe"
              THEN /\ Return("failed to remove existing raft data")
                   /\ gw' = [gw EXCEPT ![n] = "down"]
                   /\ trace' = Append(trace, "shutdown")
                   /\ UNCHANGED <<roster, info>>
              ELSE IF fault = "init"
              THEN /\ Return("failed to re-initialize gRPC SQL gateway")
                   /\ gw' = [gw EXCEPT ![n] = "down"]
                   /\ trace' = trace \o <<"shutdown", "wipe">>
                   /\ UNCHANGED <<roster, info>>
              ELSE /\ gw' = [gw EXCEPT ![n] = GatewayInit(n, raftNodes[n])]
                   /\ info' = inf
                   /\ IF infos = {}
                      THEN /\ Return("panic: joining node not found")
                           /\ trace' = trace \o <<"shutdown", "wipe", "init">>
                           /\ UNCHANGED roster
                      ELSE IF fault = "leader"
                      THEN /\ Return("failed to connect to cluster leader")
                           /\ trace' = trace \o <<"shutdown", "wipe", "init">>
                           /\ UNCHANGED roster
                      ELSE IF fault = "add" \/ ~CanAdd(inf)
                      THEN /\ Return("failed to join cluster")
                           /\ trace' = trace \o <<"shutdown", "wipe", "init">>
                           /\ UNCHANGED roster
                      ELSE /\ roster' = Append(roster, inf)
                           /\ trace' = trace \o <<"shutdown", "wipe", "init", "rpc">>
                           /\ Goto("j_exit")
    /\ UNCHANGED <<nodes, nextId, flight, ret, clusterAddress, raftNodes,
                   certs, lock, nodeID, opName, opNode, args, history>>

\* Seeded fault: the reconciling transaction leaves the pending flag set.
ReconciledPending(row, role) == [row EXCEPT !.database = @ \/ role = RaftVoter]

\* Lines 429-442: tx.NodePending(id, false); tx.NodeAddRole(id, database) for
\* a voter.
Reconciled(row, role) ==
    [row EXCEPT !.pending = FALSE, !.database = @ \/ role = RaftVoter]

\* Lines 357-453: state.Cluster.ExitExclusive running the reconciling
\* transaction. fault "closure" is a failure of the pool, network or operation
\* migration; fault "commit" a failure of the commit after the closure has
\* returned. notifyNodesUpdate is the closure's last statement.
JoinExit(n, fault) ==
    /\ Running("Join", n, "j_exit")
    /\ fault \in {"none", "closure", "commit"}
    /\ lock' = [lock EXCEPT ![n] = FALSE]
    /\ LET rows == NodePendingByAddress(clusterAddress[n])
           row == CHOOSE m \in rows : TRUE
       IN  IF rows = {}
           THEN /\ Return("failed to get ID of joining node")
                /\ trace' = Append(trace, "abort")
                /\ UNCHANGED <<nodes, nodeID, joined>>
           ELSE /\ nodeID' = [nodeID EXCEPT ![n] = row.id]
                /\ IF fault = "closure"
                   THEN /\ Return("failed to migrate local data")
                        /\ trace' = Append(trace, "abort")
                        /\ UNCHANGED <<nodes, joined>>
                   ELSE IF fault = "commit"
                   THEN /\ Return("cluster database initialization failed")
                        /\ trace' = trace \o <<"heartbeat", "abort">>
                        /\ UNCHANGED <<nodes, joined>>
                   ELSE /\ Return("none")
                        /\ trace' = trace \o <<"heartbeat", "commit">>
                        /\ nodes' = (nodes \ {row}) \cup {Reconciled(row, info.role)}
                        /\ joined' = joined \cup {row.id}
    \* the roster Accept returned has served once Join succeeds
    /\ offers' = IF NodePendingByAddress(clusterAddress[n]) # {} /\ fault = "none"
                  THEN [offers EXCEPT ![n] = <<>>] ELSE offers
    /\ UNCHANGED <<roster, nextId, plan, ret, clusterAddress, raftNodes,
                   certs, gw, opName, opNode, args, info, accepted, bootstrapped>>

----------------------------------------------------------------------------
\* Assign

\* Lines 600-659: read of the own address, search for the own entry,
\* tx.RaftNodesReplace, choice of the transactor.
AssignStart(n, r, fault) ==
    /\ fault \in {"none", "tx"}
    /\ Begin("Assign", n, [NoArgs EXCEPT !.roster = r])
    /\ LET address == NodeAddress(n)
       IN  IF ~CanTransact(n)
           THEN /\ Goto("hung")
                /\ trace' = <<>>
                /\ UNCHANGED raftNodes
           ELSE IF fault = "tx" \/ gw[n] = "down"
           THEN /\ Return("failed to fetch the address of this cluster member")
                /\ trace' = <<"tx">>
                /\ UNCHANGED raftNodes
           ELSE IF address = ""
           THEN /\ Return("cluster member is not exposed on the network")
                /\ trace' = <<"tx">>
                /\ UNCHANGED raftNodes
           ELSE IF address \notin Addresses(r)
           THEN /\ Return("this node is not included in the given list of database nodes")
                /\ trace' = <<"tx">>
                /\ UNCHANGED raftNodes
           ELSE /\ raftNodes' = [raftNodes EXCEPT ![n] = r]
                /\ trace' = <<"tx">>
                /\ Goto(IF IsDqliteNode(n) THEN "a_rpc" ELSE "a_enter")
    /\ info' = IF CanTransact(n) /\ fault = "none" /\ gw[n] # "down"
                  /\ NodeAddress(n) \in Addresses(r) \ {""}
               THEN r[LastAt(r, NodeAddress(n))]
               ELSE NoInfo
    /\ UNCHANGED <<cluster, flight, ret, clusterAddress, certs, lock, gw, nodeID, history>>

\* Seeded fault: Assign reconfigures the gateway without the exclusive lock.
AssignEnterUnlocked(n) ==
    /\ Running("Assign", n, "a_enter")
    /\ trace' = Append(trace, "enter")
    /\ Goto("a_reconf")
    /\ UNCHANGED <<cluster, flight, ret, local, opName, opNode, args, info, history>>

\* Lines 668-672: state.Cluster.EnterExclusive()
AssignEnter(n) ==
    /\ Running("Assign", n, "a_enter")
    /\ IF lock[n]
       THEN /\ Return("failed to acquire cluster database lock")
            /\ UNCHANGED <<lock, trace>>
       ELSE /\ lock' = [lock EXCEPT ![n] = TRUE]
            /\ trace' = Append(trace, "enter")
            /\ Goto("a_reconf")
    /\ UNCHANGED <<cluster, flight, ret, clusterAddress, raftNodes, certs,
                   gw, nodeID, opName, opNode, args, info, history>>

\* Lines 674-687: wipe of the data directory, gateway.init().
AssignReconfigure(n, fault) ==
    /\ Running("Assign", n, "a_reconf")
    /\ fault \in {"none", "wipe", "init"}
    /\ IF fault = "wipe"
       THEN /\ Return("failed to remove existing raft data")
            /\ UNCHANGED <<gw, trace>>
       ELSE IF fault = "init"
       THEN /\ Return("failed to re-initialize gRPC SQL gateway")
            /\ gw' = [gw EXCEPT ![n] = "down"]
            /\ trace' = Append(trace, "wipe")
       ELSE /\ gw' = [gw EXCEPT ![n] = GatewayInit(n, raftNodes[n])]
            /\ trace' = trace \o <<"wipe", "init">>
            /\ Goto("a_rpc_x")
    /\ UNCHANGED <<cluster, flight, ret, clusterAddress, raftNodes, certs, lock,
                   nodeID, opName, opNode, args, info, history>>

\* Lines 689-706: FindLeader, client.Assign(info.ID, info.Role). The leader
\* refuses an id its configuration does not have.
AssignRPC(n, fault) ==
    /\ \/ Running("Assign", n, "a_rpc")
       \/ Running("Assign", n, "a_rpc_x")
    /\ fault \in {"none", "leader", "assign"}
    /\ IF fault = "leader"
       THEN /\ Return("failed to connect to cluster leader")
            /\ UNCHANGED <<roster, trace>>
       ELSE IF fault = "assign" \/ info.id \notin Ids(roster)
       THEN /\ Return("failed to assign role")
            /\ UNCHANGED <<roster, trace>>
       ELSE /\ roster' = SetRole(roster, info.id, info.role)
            /\ trace' = Append(trace, "rpc")
            /\ Goto(IF pc = "a_rpc" THEN "a_exit" ELSE "a_exit_x")
    /\ UNCHANGED <<nodes, nextId, flight, ret, local, opName, opNode, args, info, history>>

\* Lines 708-731: the transactor (state.Cluster.Transaction, or
\* state.Cluster.ExitExclusive after a reconfiguration) adds or removes the
\* database role of the row of the own node id, then notifyNodesUpdate.
AssignExit(n, fault) ==
    /\ \/ Running("Assign", n, "a_exit") /\ CanTransact(n)
       \/ Running("Assign", n, "a_exit_x")
    /\ fault \in {"none", "tx"}
    /\ lock' = IF pc = "a_exit_x" THEN [lock EXCEPT ![n] = FALSE] ELSE lock
    /\ IF fault = "tx"
       THEN /\ Return("cluster database initialization failed")
            /\ trace' = Append(trace, "abort")
            /\ UNCHANGED nodes
       ELSE /\ Return("none")
            /\ trace' = trace \o <<"commit", "heartbeat">>
            /\ nodes' = {IF m.id = nodeID[n]
                         THEN [m EXCEPT !.database = (info.role = RaftVoter)]
                         ELSE m : m \in nodes}
    \* the proposed roster has served once Assign succeeds
    /\ plan' = IF fault = "none" THEN NoPlan ELSE plan
    /\ UNCHANGED <<roster, nextId, offers, ret, clusterAddress, raftNodes, certs, gw,
                   nodeID, opName, opNode, args, info, history>>

----------------------------------------------------------------------------
\* Rebalance

\* node.IsOffline(offlineThreshold) of nodesByAddress[address]: a roster entry
\* without a member row has the zero heartbeat.
IsOffline(address, stale) == NodeByAddress(address) = {} \/ address \in stale

\* Connect(node.Address, ...) and GetServer(): the probe of lines 524-527.
ProbeFails(address, dead) == NodeByAddress(address) = {} \/ address \in dead

\* Seeded fault: a member with a stale heartbeat is demoted without a probe.
DemotedStale(r, stale, dead) ==
    {i \in DOMAIN r : r[i].role # RaftSpare /\ IsOffline(r[i].address, stale)}

\* Lines 517-549: the indexes of the roster entries the loop demotes.
Demoted(r, stale, dead) ==
    {i \in DOMAIN r : /\ r[i].role # RaftSpare
                      /\ IsOffline(r[i].address, stale)
                      /\ ProbeFails(r[i].address, dead)}

\* Seeded fault: the demotion RPC assigns the role stand-by.
DemoteToStandBy(r, rpcs) ==
    [i \in DOMAIN r |-> IF i \in rpcs THEN [r[i] EXCEPT !.role = RaftStandBy] ELSE r[i]]

\* Lines 536 and 546: client.Assign(ctx, info.ID, db.RaftSpare) for the
\* entries at the indexes rpcs.
Demote(r, rpcs) ==
    [i \in DOMAIN r |-> IF i \in rpcs THEN [r[i] EXCEPT !.role = RaftSpare] ELSE r[i]]

\* The k smallest members of a set of indexes.
FirstK(S, k) == {i \in S : Cardinality({j \in S : j < i}) < k}

\* The addresses of the entries of r with the given role, in roster order,
\* leaving out the indexes in skip.
RECURSIVE ByRole(_, _, _, _)
ByRole(r, role, skip, i) ==
    IF i > Len(r) THEN <<>>
    ELSE IF i \notin skip /\ r[i].role = role
    THEN <<r[i].address>> \o ByRole(r, role, skip, i + 1)
    ELSE ByRole(r, role, skip, i + 1)

\* Lines 560-597: the role to fill, the node to promote, the roster returned.
\* cur is the roster after the demotions, D the demoted indexes.
RebalancePlan(cur, D) ==
    LET voters == ByRole(cur, RaftVoter, D, 1)
        standbys == ByRole(cur, RaftStandBy, D, 1)
        spares == ByRole(cur, RaftSpare, D, 1)
        toVoter == Len(voters) < MaxVoters /\ Len(voters) > 1
        toStandBy == ~toVoter /\ Len(standbys) < MaxStandBys
        role == IF toVoter THEN RaftVoter ELSE RaftStandBy
        candidates == IF toVoter THEN standbys \o spares ELSE spares
        address == IF candidates = <<>> \/ NodeByAddress(candidates[1]) = {}
                   THEN "" ELSE candidates[1]
    IN  IF ~toVoter /\ ~toStandBy THEN [address |-> "", roster |-> <<>>]
        ELSE IF address = "" THEN [address |-> "", roster |-> cur]
        ELSE [address |-> address, roster |-> SetRoleAt(cur, FirstAt(cur, address), role)]

\* Lines 481-597. stale: the addresses whose heartbeat is older than the
\* offline threshold; dead: those whose probe fails. failAt = 0: no failure;
\* failAt = k: the k-th demotion fails, in getClient or client.Assign ("rpc")
\* or in the transaction that removes the database role ("tx").
Rebalance(l, stale, dead, fault, failAt) ==
    /\ CanServe(l)
    /\ fault \in {"none", "raft", "tx", "demote-rpc", "demote-tx"}
    /\ LET D == Demoted(roster, stale, dead)
           done == IF failAt = 0 THEN D ELSE FirstK(D, failAt - 1)
           failed == FirstK(D, failAt) \ done
           rpcs == IF fault = "demote-tx" THEN done \cup failed ELSE done
           cur == Demote(roster, rpcs)
           gone == {roster[i].address : i \in done}
           p == RebalancePlan(cur, D)
       IN  /\ (fault \in {"demote-rpc", "demote-tx"}) <=> (failAt > 0)
           /\ failAt <= Cardinality(D)
           /\ IF fault = "raft" \/ ~HasRoster
              THEN /\ ret' = Result("Rebalance", l, "failed to get current raft nodes",
                                    "", <<>>, 0)
                   /\ UNCHANGED <<nodes, roster, plan>>
              ELSE /\ CanTransact(l)
                   /\ IF fault = "tx"
                      THEN /\ ret' = Result("Rebalance", l, "failed to get cluster nodes",
                                            "", <<>>, 1)
                           /\ UNCHANGED <<nodes, roster, plan>>
                      ELSE \* client.Assign(info.ID, spare); tx.NodeRemoveRole(node.ID, database)
                           /\ roster' = cur
                           /\ nodes' = {IF ~m.pending /\ m.address \in gone
                                        THEN [m EXCEPT !.database = FALSE]
                                        ELSE m : m \in nodes}
                           /\ IF failAt > 0
                              THEN /\ ret' = Result("Rebalance", l,
                                               IF fault = "demote-rpc"
                                               THEN "failed to demote offline node"
                                               ELSE "failed to update node role",
                                               "", <<>>, 1 + Cardinality(done))
                                   /\ UNCHANGED plan
                              ELSE /\ ret' = Result("Rebalance", l, "none", p.address,
                                                    p.roster, 1 + Cardinality(done))
                                   /\ plan' = IF p.address = "" THEN plan ELSE p
    /\ UNCHANGED <<nextId, offers, local, slot, history>>

----------------------------------------------------------------------------
\* Handover

\* Seeded fault: isMemberOnline trusts the heartbeat and makes no probe.
IsMemberOnlineByHeartbeat(address, stale, dead) == address \notin stale

\* Lines 858-885: isMemberOnline of a member that has a row.
IsMemberOnline(address, stale, dead) == address \notin stale \/ address \notin dead

\* Lines 839-852: the indexes the loop looks at before it returns: the
\* entries that are not voters and not the leaving one, in roster order, up
\* to the first that has no member row or is online.
Replacements(r, address) ==
    {i \in DOMAIN r : r[i].role # RaftVoter /\ r[i].address # address}

\* Lines 816-855. fault "raft" is a failure of gateway.currentRaftNodes(),
\* fault "tx" one of the first transaction of isMemberOnline. errors.Wrapf of
\* a nil error is nil: an address that is in no roster entry gives no error.
Handover(l, address, stale, dead, fault) ==
    /\ CanServe(l)
    /\ fault \in {"none", "raft", "tx"}
    /\ LET at == {i \in DOMAIN roster : roster[i].address = address}
           first == FirstAt(roster, address)
           C == Replacements(roster, address)
           stop == {i \in C : \/ NodeByAddress(roster[i].address) = {}
                             \/ IsMemberOnline(roster[i].address, stale, dead)}
           k == CHOOSE i \in stop : \A j \in stop : i <= j
           looked == IF stop = {} THEN Cardinality(C)
                     ELSE Cardinality({i \in C : i <= k})
       IN  IF fault = "raft" \/ ~HasRoster
           THEN /\ ret' = Result("Handover", l, "failed to get current raft nodes",
                                 "", <<>>, 0)
                /\ UNCHANGED plan
           ELSE IF at = {} \/ roster[first].role # RaftVoter
           THEN /\ fault = "none"
                /\ ret' = Result("Handover", l, "none", "", <<>>, 0)
                /\ UNCHANGED plan
           ELSE /\ C # {} => CanTransact(l)
                /\ fault = "tx" => C # {}
                /\ IF fault = "tx"
                   THEN /\ ret' = Result("Handover", l, "failed to check if member is online",
                                         "", <<>>, 1)
                        /\ UNCHANGED plan
                   ELSE IF stop = {}
                   THEN /\ ret' = Result("Handover", l, "none", "", <<>>, looked)
                        /\ UNCHANGED plan
                   ELSE IF NodeByAddress(roster[k].address) = {}
                   THEN /\ ret' = Result("Handover", l, "failed to check if member is online",
                                         "", <<>>, looked)
                        /\ UNCHANGED plan
                   ELSE /\ ret' = Result("Handover", l, "none", roster[k].address,
                                         SetRoleAt(roster, k, RaftVoter), looked)
                        /\ plan' = [address |-> roster[k].address,
                                    roster |-> SetRoleAt(roster, k, RaftVoter)]
    /\ UNCHANGED <<cluster, offers, local, slot, history>>

----------------------------------------------------------------------------
\* Leave, Purge, List

\* Lines 745-808. busy: the member still has containers or images. Faults:
\* gateway.currentRaftNodes ("raft"), gateway.getClient ("client"),
\* client.Remove ("remove").
Leave(l, name, force, busy, fault) ==
    /\ CanServe(l)
    /\ CanTransact(l)
    /\ fault \in {"none", "raft", "client", "remove"}
    /\ LET rows == NodeByName(name)
           row == CHOOSE m \in rows : TRUE
           e1 == IF rows = {} THEN "node not found"
                 ELSE IF ~force THEN membershipCheckClusterStateForLeave(busy)
                 ELSE "none"
           address == row.address
       IN  IF e1 # "none"
           THEN /\ fault = "none"
                /\ ret' = Result("Leave", l, e1, "", <<>>, 1)
                /\ UNCHANGED roster
           ELSE IF fault = "raft" \/ ~HasRoster
           THEN /\ ret' = Result("Leave", l, "failed to get raft nodes", "", <<>>, 1)
                /\ UNCHANGED roster
           ELSE IF address \notin Addresses(roster)
           THEN /\ fault = "none"
                /\ ret' = Result("Leave", l, "none", address, <<>>, 1)
                /\ UNCHANGED roster
           ELSE IF fault = "client"
           THEN /\ ret' = Result("Leave", l, "failed to connect to cluster leader",
                                 "", <<>>, 1)
                /\ UNCHANGED roster
           ELSE IF fault = "remove"
           THEN /\ ret' = Result("Leave", l, "failed to leave the cluster", "", <<>>, 1)
                /\ UNCHANGED roster
           ELSE \* client.Remove(ctx, info.ID)
                /\ roster' = Without(roster, roster[FirstAt(roster, address)].id)
                /\ ret' = Result("Leave", l, "none", address, <<>>, 1)
    /\ UNCHANGED <<nodes, nextId, flight, local, slot, history>>

\* Lines 888-909: tx.NodeByName, tx.NodeClear, tx.NodeRemove.
Purge(l, name, fault) ==
    /\ CanServe(l)
    /\ CanTransact(l)
    /\ fault \in {"none", "tx"}
    /\ LET rows == NodeByName(name)
       IN  IF rows = {}
           THEN /\ fault = "none"
                /\ ret' = Result("Purge", l, "failed to get node", "", <<>>, 1)
                /\ UNCHANGED nodes
           ELSE IF fault = "tx"
           THEN /\ ret' = Result("Purge", l, "failed to remove node", "", <<>>, 1)
                /\ UNCHANGED nodes
           ELSE /\ nodes' = nodes \ rows
                /\ ret' = Result("Purge", l, "none", "", <<>>, 1)
    /\ UNCHANGED <<roster, nextId, flight, local, slot, history>>

\* Lines 912-988: List reads the members in one transaction, on any machine.
List(n) ==
    /\ Quiet
    /\ gw[n] # "down"
    /\ CanTransact(n)
    /\ ret' = Result("List", n,
                     IF UsesClusterDB(n) /\ Members = {} THEN "panic: index out of range"
                     ELSE "none", "", <<>>, 1)
    /\ UNCHANGED <<cluster, flight, local, slot, history>>

----------------------------------------------------------------------------
\* Restart of the daemon on machine n, after an operation left it with the
\* exclusive lock held: the lock lives in memory, the gateway is initialised
\* from the local raft_nodes, and the handle is bound to the row of the own
\* address.
Restart(n) ==
    /\ Quiet
    /\ lock[n]
    /\ opName = "none" \/ opNode # n
    /\ lock' = [lock EXCEPT ![n] = FALSE]
    /\ gw' = [gw EXCEPT ![n] = GatewayInit(n, raftNodes[n])]
    /\ nodeID' = [nodeID EXCEPT ![n] =
                    IF \E m \in nodes : m.address = clusterAddress[n]
                    THEN (CHOOSE m \in nodes : m.address = clusterAddress[n]).id
                    ELSE @]
    /\ UNCHANGED <<cluster, flight, ret, clusterAddress, raftNodes, certs, slot, history>>

----------------------------------------------------------------------------

\* The state of the slot, the messages in flight and the history when no
\* operation has run yet.
Fresh ==
    /\ offers = [a \in Nodes |-> <<>>]
    /\ plan = NoPlan
    /\ ret = NoRet
    /\ opName = "none"
    /\ opNode = Seed
    /\ args = NoArgs
    /\ pc = "done"
    /\ err = "none"
    /\ info = NoInfo
    /\ trace = <<>>
    /\ faults = 0
    /\ plans = 0
    /\ rt = NoTrip
    /\ calls = <<>>

\* Machines that have never been clustered: each has the single registry row
\* of a local database, no raft_nodes, no cluster certificate, and an engine
\* that runs in memory. The machines of C have a cluster.https_address.
Pristine(C) ==
    /\ nodes = {Row(1, "none", Unclustered, FALSE, FALSE)}
    /\ roster = <<>>
    /\ nextId = 2
    /\ clusterAddress = [n \in Nodes |-> IF n \in C THEN n ELSE ""]
    /\ raftNodes = [n \in Nodes |-> <<>>]
    /\ certs = [n \in Nodes |-> {}]
    /\ lock = [n \in Nodes |-> FALSE]
    /\ gw = [n \in Nodes |-> "memory"]
    /\ nodeID = [n \in Nodes |-> 1]
    /\ accepted = {}
    /\ joined = {}
    /\ bootstrapped = {}
    /\ Fresh

\* At most one machine has no cluster.https_address.
Init == \E n \in Nodes \cup {""} : (n \in {Seed, "a4", ""}) /\ Pristine(Nodes \ {n})

\* A cluster of two members in which a2 runs no engine: it is a spare of
\* the roster that its own raft_nodes does not list (lines 661-664: a member
\* upgraded from a cluster without roles, or one that did not join cleanly).
Upgraded ==
    LET r == <<RaftNode(1, "a1", RaftVoter), RaftNode(2, "a2", RaftSpare)>>
    IN  /\ nodes = {Row(1, NameOf("a1"), "a1", FALSE, TRUE),
                    Row(2, NameOf("a2"), "a2", FALSE, FALSE)}
        /\ roster = r
        /\ nextId = 3
        /\ clusterAddress = [n \in Nodes |-> IF n \in {"a1", "a2"} THEN n ELSE ""]
        /\ raftNodes = [n \in Nodes |->
                          IF n = "a1" THEN r
                          ELSE IF n = "a2" THEN SubSeq(r, 1, 1) ELSE <<>>]
        /\ certs = [n \in Nodes |-> IF n = "a1" THEN {".crt", ".key", ".ca"} ELSE {}]
        /\ lock = [n \in Nodes |-> FALSE]
        /\ gw = [n \in Nodes |->
                   IF n = "a1" THEN "dqlite" ELSE IF n = "a2" THEN "client" ELSE "memory"]
        /\ nodeID = [n \in Nodes |-> IF n = "a2" THEN 2 ELSE 1]
        /\ accepted = {2}
        /\ joined = {2}
        /\ bootstrapped = {"a1"}
        /\ Fresh

\* The machines an operator may ask the cluster to accept.
Configured == {n \in Nodes : clusterAddress[n] # ""}

Versions == {<<SchemaVersion, APIExtensions>>, <<SchemaVersion + 1, APIExtensions>>,
             <<SchemaVersion, APIExtensions + 1>>}

\* What the leader l may find of the other members: those whose heartbeat is
\* stale, and among them those that do not answer the probe either.
Liveness(l) ==
    {sd \in (SUBSET (Addresses(roster) \ {l})) \X (SUBSET (Addresses(roster) \ {l})) :
        sd[2] \subseteq sd[1]}

\* The number of collaborator failures injected so far, at most MaxFaults.
\* The round trip goes on with the successful Accept, Join, Leave and Purge
\* of one address, in this order, and ends with any other change of the
\* registry or the roster.
Track ==
    rt' = IF ret'.op = "Accept" /\ ret'.err = "none"
          THEN [stage |-> 1, x |-> ret'.address, nodes |-> nodes, roster |-> roster]
          ELSE IF rt.stage = 1 /\ opName' = "Join" /\ opNode' = rt.x
          THEN [rt EXCEPT !.stage = IF pc = "j_exit" /\ err' = "none" THEN 2 ELSE 1]
          ELSE IF rt.stage = 2 /\ ret'.op = "Leave" /\ ret'.err = "none"
                  /\ ret'.address = rt.x
          THEN [rt EXCEPT !.stage = 3]
          ELSE IF rt.stage = 3 /\ ret'.op = "Purge" /\ ret'.err = "none"
                  /\ (\E m \in nodes \ nodes' : m.address = rt.x)
          THEN [rt EXCEPT !.stage = 4]
          ELSE IF <<nodes', roster'>> # <<nodes, roster>> THEN NoTrip
          ELSE rt

Failing(fault) ==
    /\ fault # "none" => faults < MaxFaults
    /\ faults' = IF fault = "none" THEN faults ELSE faults + 1
    /\ Track

Inject(fault) == Failing(fault) /\ plans' = plans /\ calls' = calls

\* At most MaxPlans calls of Rebalance and Handover change the roster, the
\* registry or the proposed roster.
Propose(fault) ==
    /\ Failing(fault)
    /\ plans' = IF <<roster', nodes', plan'>> = <<roster, nodes, plan>> THEN plans ELSE plans + 1
    /\ plans' <= MaxPlans
    /\ calls' = calls

\* The steps of Bootstrap, Join and Assign on the machines of N.
BootstrapSteps(N) ==
    \/ \E n \in N : \E name \in {"", NameOf(n)} : BootstrapStart(n, name) /\ Inject("none")
    \/ \E n \in N : BootstrapEnter(n) /\ Inject("none")
    \/ \E n \in N, fault \in {"none", "shutdown", "init", "leadership", "symlink"},
          made \in 0..2 : BootstrapReconfigure(n, fault, made) /\ Inject(fault)
    \/ \E n \in N, fault \in {"none", "tx"} : BootstrapExit(n, fault) /\ Inject(fault)

JoinSteps(N) ==
    \/ \E n \in N, fault \in {"none", "tx"} :
          \E name \in {"", NameOf(n)} :
              offers[n] # <<>> /\ JoinStart(n, name, offers[n], fault) /\ Inject(fault)
    \/ \E n \in N : JoinEnter(n) /\ Inject("none")
    \/ \E n \in N, fault \in {"none", "shutdown", "wipe", "init", "leader", "add"} :
          \E inf \in JoinInfos(raftNodes[n], clusterAddress[n]) \cup {NoInfo} :
              JoinReconfigure(n, fault, inf) /\ Inject(fault)
    \/ \E n \in N, fault \in {"none", "closure", "commit"} : JoinExit(n, fault) /\ Inject(fault)

AssignSteps(N) ==
    \/ \E n \in N, fault \in {"none", "tx"} :
          plan.address # "" /\ AssignStart(n, plan.roster, fault) /\ Inject(fault)
    \/ \E n \in N : AssignEnter(n) /\ Inject("none")
    \/ \E n \in N, fault \in {"none", "wipe", "init"} : AssignReconfigure(n, fault) /\ Inject(fault)
    \/ \E n \in N, fault \in {"none", "leader", "assign"} : AssignRPC(n, fault) /\ Inject(fault)
    \/ \E n \in N, fault \in {"none", "tx"} : AssignExit(n, fault) /\ Inject(fault)

AcceptCalls(A) ==
    \E l \in Nodes, address \in A \cup {""}, v \in Versions, fault \in {"none", "raft"} :
        \E name \in {"", NameOf(address), NameOf(Seed)} :
            Accept(l, name, address, v[1], v[2], fault) /\ Inject(fault)

\* Formation of a cluster: Bootstrap on the seed, Accept and Join of the
\* other machines, with every failure of every collaborator.
Next ==
    \/ Settle /\ Inject("none")
    \/ BootstrapSteps(Nodes)
    \/ AcceptCalls(Nodes)
    \/ JoinSteps(Nodes)
    \/ \E n \in Nodes : List(n) /\ Inject("none")
    \/ \E n \in Nodes : Restart(n) /\ Inject("none")

Spec == Init /\ [][Next]_vars

\* The whole life of a member: formation, change of role, departure. Either
\* a1 and a2 form a cluster from nothing, or the cluster of Upgraded goes on.
InitLife == Pristine({"a1", "a2"}) \/ Upgraded

NextLife ==
    \/ Settle /\ Inject("none")
    \/ BootstrapSteps(Nodes)
    \/ AcceptCalls(Configured)
    \/ JoinSteps(Nodes)
    \/ AssignSteps(Nodes)
    \/ \E l \in Nodes, fault \in {"none", "raft", "tx", "demote-rpc", "demote-tx"},
          failAt \in 0..Len(roster) :
          \E sd \in Liveness(l) : Rebalance(l, sd[1], sd[2], fault, failAt) /\ Propose(fault)
    \/ \E l \in Nodes, address \in Configured, fault \in {"none", "raft", "tx"} :
          \E sd \in Liveness(l) : Handover(l, address, sd[1], sd[2], fault) /\ Propose(fault)
    \/ \E l \in Nodes, force \in BOOLEAN, busy \in BOOLEAN,
          fault \in {"none", "raft", "client", "remove"} :
          \E a \in Configured \ {l} : Leave(l, NameOf(a), force, busy, fault) /\ Inject(fault)
    \/ \E l \in Nodes, fault \in {"none", "tx"} :
          \E a \in Configured \ {l} : Purge(l, NameOf(a), fault) /\ Inject(fault)
    \/ \E n \in Nodes : List(n) /\ Inject("none")
    \/ \E n \in Nodes : Restart(n) /\ Inject("none")

SpecLife == InitLife /\ [][NextLife]_vars

----------------------------------------------------------------------------
\* The planners (Rebalance, Handover) and Accept on an established cluster.

\* The largest cluster whose members take every combination of roles.
MaxLen == 4

\* At most MaxStale members have a stale heartbeat when a planner is called.
MaxStale == 2

Roles == {RaftVoter, RaftStandBy, RaftSpare}

\* The address of the member with registry id i.
Address == <<"a1", "a2", "a3", "a4", "a5", "a6">>

\* A roster that holds MaxVoters voters, MaxStandBys stand-bys and no spare.
Full(r) ==
    /\ Len(r) = MaxVoters + MaxStandBys
    /\ Count(r, RaftVoter) = MaxVoters
    /\ Count(r, RaftStandBy) = MaxStandBys

\* A cluster whose roster is r and whose leader is the seed. Every member has
\* joined, except the member w if w > 0: it is in the window in which the
\* leader has added it to the roster and its registry row is still pending
\* (it is the member added last).
\* A member carries the database role if and only if it is a voter.
\* The member u, if u > 0, has been upgraded and the others not yet: its row
\* holds the next schema version.
Established(r, w, u) ==
    /\ nodes = {[Row(i, NameOf(Address[i]), Address[i], i = w,
                     i # w /\ r[i].role = RaftVoter)
                    EXCEPT !.schema = IF i = u THEN SchemaVersion + 1 ELSE SchemaVersion]
                : i \in DOMAIN r}
    /\ roster = r
    /\ nextId = Len(r) + 1
    /\ clusterAddress = [n \in Nodes |-> IF n \in Addresses(r) THEN n ELSE ""]
    /\ raftNodes = [n \in Nodes |-> IF n \in Addresses(r) THEN r ELSE <<>>]
    /\ certs = [n \in Nodes |-> IF n = Seed THEN {".crt", ".key", ".ca"} ELSE {}]
    /\ lock = [n \in Nodes |-> FALSE]
    /\ gw = [n \in Nodes |-> IF n \in Addresses(r) THEN "dqlite" ELSE "memory"]
    /\ nodeID = [n \in Nodes |-> IF n \in Addresses(r) THEN r[FirstAt(r, n)].id ELSE 1]
    /\ accepted = DOMAIN r \ {1}
    /\ joined = DOMAIN r \ {1, w}
    /\ bootstrapped = {Seed}
    /\ Fresh

\* The clusters of up to MaxLen members with every combination of roles, and
\* the full clusters; or no cluster yet.
InitPlan ==
    \/ \E k \in 1..(MaxVoters + MaxStandBys) :
          \E f \in [2..k -> Roles], w \in {0, k} \ {1}, u \in {0, 2} :
              LET r == [i \in 1..k |->
                          RaftNode(i, Address[i], IF i = 1 THEN RaftVoter ELSE f[i])]
              IN  /\ k <= MaxLen \/ Full(r)
                  /\ u = 0 \/ (u \in 1..k /\ u # w)
                  /\ Established(r, w, u)
    \/ Pristine(Nodes)

\* What the caller of a leader-side operation gave it, the roster and the
\* registry it found, and what it returned.
\* name, schema and api are the other arguments of Accept; force is the flag
\* of Leave and busy what tx.NodeIsEmpty finds.
CallOf(op, arg, name, schema, api, stale, dead) ==
    [op |-> op, arg |-> arg, name |-> name, schema |-> schema, api |-> api,
     force |-> FALSE, busy |-> FALSE, stale |-> stale, dead |-> dead,
     roster |-> roster, nodes |-> nodes,
     err |-> ret'.err, address |-> ret'.address, out |-> ret'.roster]

Call(op, arg, stale, dead) ==
    CallOf(op, arg, "", SchemaVersion, APIExtensions, stale, dead)

\* A behaviour is one call, or a Rebalance and the same Rebalance again.
Recall(op, arg, stale, dead, fault) ==
    /\ Failing(fault)
    /\ plans' = plans
    /\ calls' = Append(calls, Call(op, arg, stale, dead))

\* One call of Accept, or an Accept that failed and the same Accept again.
RecallAccept(name, address, schema, api, fault) ==
    /\ Failing(fault)
    /\ plans' = plans
    /\ calls' = Append(calls, CallOf("Accept", address, name, schema, api, {}, {}))

\* One call of Leave, or a Leave and the same Leave again.
RecallLeave(name, force, busy, fault) ==
    /\ Failing(fault)
    /\ plans' = plans
    /\ calls' = Append(calls, [CallOf("Leave", "", name, SchemaVersion, APIExtensions, {}, {})
                                 EXCEPT !.force = force, !.busy = busy])

\* What the leader may find of the other members when a planner is called.
\* It leads: more than half of the voters answer.
FewStale ==
    {sd \in Liveness(Seed) :
        /\ Cardinality(sd[1]) <= MaxStale
        /\ 2 * Cardinality({i \in DOMAIN roster : /\ roster[i].role = RaftVoter
                                                  /\ roster[i].address \in sd[2]})
              < Count(roster, RaftVoter)}

\* The addresses Handover and Accept are called with: those of the roster and
\* the next one.
Known == {Address[i] : i \in 1..(Len(roster) + 1)}

NextPlan ==
    \/ Settle /\ Inject("none")
    \/ /\ calls = <<>>
       /\ \E sd \in FewStale :
             \E fault \in {"none", "raft", "tx", "demote-rpc", "demote-tx"},
                failAt \in 0..MaxStale :
                 /\ Rebalance(Seed, sd[1], sd[2], fault, failAt)
                 /\ Recall("Rebalance", "", sd[1], sd[2], fault)
    \/ \E fault \in {"none", "raft", "tx", "demote-rpc", "demote-tx"}, failAt \in 0..MaxStale :
          /\ Len(calls) = 1
          /\ calls[1].op = "Rebalance"
          /\ Rebalance(Seed, calls[1].stale, calls[1].dead, fault, failAt)
          /\ Recall("Rebalance", "", calls[1].stale, calls[1].dead, fault)
    \/ /\ calls = <<>>
       /\ \E sd \in FewStale :
             \E address \in Known, fault \in {"none", "raft", "tx"} :
                 /\ Handover(Seed, address, sd[1], sd[2], fault)
                 /\ Recall("Handover", address, sd[1], sd[2], fault)
    \/ \E address \in Known \cup {""}, v \in Versions, fault \in {"none", "raft"} :
          \E name \in {"", NameOf(address)} :
              /\ calls = <<>>
              /\ Accept(Seed, name, address, v[1], v[2], fault)
              /\ RecallAccept(name, address, v[1], v[2], fault)
    \/ /\ Len(calls) = 1
       /\ calls[1].op = "Accept"
       /\ calls[1].err # "none"
       /\ Accept(Seed, calls[1].name, calls[1].arg, calls[1].schema, calls[1].api, "none")
       /\ RecallAccept(calls[1].name, calls[1].arg, calls[1].schema, calls[1].api, "none")
    \/ \E a \in Known, force, busy \in BOOLEAN, fault \in {"none", "raft", "client", "remove"} :
          /\ calls = <<>>
          \* the leader is asked to leave only where the check refuses it
          /\ a = Seed => (~force /\ Cardinality(Members) = 1)
          /\ Leave(Seed, NameOf(a), force, busy, fault)
          /\ RecallLeave(NameOf(a), force, busy, fault)
    \/ \E fault \in {"none", "raft"} :
          /\ Len(calls) = 1
          /\ calls[1].op = "Leave"
          /\ Leave(Seed, calls[1].name, calls[1].force, calls[1].busy, fault)
          /\ RecallLeave(calls[1].name, calls[1].force, calls[1].busy, fault)

SpecPlan == InitPlan /\ [][NextPlan]_vars

----------------------------------------------------------------------------
\* Join with the rosters a caller can pass.

\* The orders of three roster entries.
Orders == {o \in [1..3 -> 1..3] : \A i, j \in 1..3 : o[i] = o[j] => i = j}

\* The cluster of the seed has accepted a2 and a3, which have not joined.
\* The roster Join is called with lists the seed and the two accepted
\* machines, in any order and with any roles; a4 is called with it too, which
\* it does not list.
InitJoin ==
    \E f \in [2..3 -> Roles], o \in Orders :
        LET e == [i \in 1..3 |->
                    RaftNode(i, Address[i], IF i = 1 THEN RaftVoter ELSE f[i])]
            r == [j \in 1..3 |-> e[o[j]]]
        IN  /\ nodes = {Row(i, NameOf(Address[i]), Address[i], i # 1, i = 1) : i \in 1..3}
            /\ roster = <<e[1]>>
            /\ nextId = 4
            /\ clusterAddress = [n \in Nodes |-> n]
            /\ raftNodes = [n \in Nodes |-> IF n = Seed THEN <<e[1]>> ELSE <<>>]
            /\ certs = [n \in Nodes |-> IF n = Seed THEN {".crt", ".key", ".ca"} ELSE {}]
            /\ lock = [n \in Nodes |-> FALSE]
            /\ gw = [n \in Nodes |-> IF n = Seed THEN "dqlite" ELSE "memory"]
            /\ nodeID = [n \in Nodes |-> 1]
            /\ accepted = {2, 3}
            /\ joined = {}
            /\ bootstrapped = {Seed}
            /\ offers = [a \in Nodes |-> IF a = Seed THEN <<>> ELSE r]
            /\ plan = NoPlan
            /\ ret = NoRet
            /\ opName = "none"
            /\ opNode = Seed
            /\ args = NoArgs
            /\ pc = "done"
            /\ err = "none"
            /\ info = NoInfo
            /\ trace = <<>>
            /\ faults = 0
            /\ plans = 0
            /\ rt = NoTrip
            /\ calls = <<>>

NextJoin ==
    \/ Settle /\ Inject("none")
    \/ JoinSteps(Nodes)

SpecJoin == InitJoin /\ [][NextJoin]_vars

----------------------------------------------------------------------------
\* Formation of a cluster by machines in every local state.

\* The machines of C have a cluster.https_address; those of L have entries
\* in raft_nodes, left by an earlier membership or by a Bootstrap that failed
\* after its node transaction.
InitLocal ==
    \E C, L \in SUBSET {Seed, "a2"} :
        /\ nodes = {Row(1, "none", Unclustered, FALSE, FALSE)}
        /\ roster = <<>>
        /\ nextId = 2
        /\ clusterAddress = [n \in Nodes |-> IF n \in C \cup {"a3"} THEN n ELSE ""]
        /\ raftNodes = [n \in Nodes |-> IF n \in L THEN <<RaftNode(1, n, RaftVoter)>>
                                        ELSE <<>>]
        /\ certs = [n \in Nodes |-> {}]
        /\ lock = [n \in Nodes |-> FALSE]
        /\ gw = [n \in Nodes |-> "memory"]
        /\ nodeID = [n \in Nodes |-> 1]
        /\ accepted = {}
        /\ joined = {}
        /\ bootstrapped = {}
        /\ Fresh

SpecLocal == InitLocal /\ [][Next]_vars

----------------------------------------------------------------------------
\* Properties

\* The events the operation in the slot has performed.
Events == {trace[i] : i \in DOMAIN trace}

Stepwise == {"Bootstrap", "Join", "Assign"}

\* C1: whenever Bootstrap, Join or Assign has returned, with success or with
\* an error, after EnterExclusive succeeded, the exclusive lock of its
\* machine is no longer held.
C1_LockReleasedOnReturn ==
    (opName \in Stepwise /\ pc = "done" /\ "enter" \in Events) => ~lock[opNode]

\* C2: between operations, and with no collaborator having failed, a
\* registry member carries the database role if and only if the roster has a
\* voter with its address.
C2_DatabaseIffVoter ==
    (Idle /\ faults = 0) =>
        \A m \in nodes :
            m.database <=> \E i \in DOMAIN roster :
                               roster[i].address = m.address /\ roster[i].role = RaftVoter

\* Whether a roster holds at most MaxVoters voters and MaxStandBys stand-bys.
WithinCapacity(r) == Count(r, RaftVoter) <= MaxVoters /\ Count(r, RaftStandBy) <= MaxStandBys

\* C3: the roster, and every roster that Accept, Rebalance or Handover
\* returns, holds at most MaxVoters voters and at most MaxStandBys stand-bys.
C3_RosterWithinCapacity ==
    /\ WithinCapacity(roster)
    /\ ret.op \in {"Accept", "Rebalance", "Handover"} => WithinCapacity(ret.roster)

\* Machine n is in the window in which the leader has added it to the roster
\* and its registry row is still pending.
InWindow(n) == n \in Addresses(roster) /\ NodePendingByAddress(n) # {}

\* C4: a Join invoked again in that window, with the name and the roster of
\* the first invocation, returns success once it returns: it is not rejected.
C4_RetryOfJoinSucceeds ==
    \A n \in Nodes :
        (/\ opName = "Join" /\ opNode = n /\ pc = "done"
         /\ "rpc" \notin Events
         /\ args = [name |-> NameOf(n), roster |-> offers[n]]
         /\ InWindow(n))
        => err = "none"

\* C5: a registry row is pending if and only if the Accept that inserted it
\* has committed and no Join has succeeded for it.
C5_PendingIffAcceptedNotJoined ==
    \A m \in nodes : m.pending <=> (m.id \in accepted /\ m.id \notin joined)

\* A Join has just succeeded and the row it reconciled is not pending.
C5_JoinClearedPending ==
    /\ opName = "Join" /\ pc = "done" /\ err = "none"
    /\ \E m \in nodes : m.address = opNode /\ ~m.pending /\ m.id \in accepted \cap joined

\* No two registry rows, pending or not, share a name or an address.
Unique == \A m1, m2 \in nodes : (m1.name = m2.name \/ m1.address = m2.address) => m1 = m2

\* A step is an Accept of a name or an address that a row already has.
AcceptOfDuplicate ==
    /\ ret'.op = "Accept"
    /\ \E address \in Nodes, v \in Versions, fault \in {"none", "raft"} :
          \E name \in {NameOf(address), NameOf(Seed)} :
              /\ \E m \in nodes : m.name = name \/ m.address = address
              /\ Accept(ret'.at, name, address, v[1], v[2], fault)

C7_RoundTrip == rt.stage = 4 => (nodes = rt.nodes /\ roster = rt.roster)

\* A round trip has just been completed from a clustered state.
C7_RoundTripDone == rt.stage = 4 /\ rt.roster # <<>>

\* A step starts Bootstrap, with a name, on a machine where it has succeeded.
SecondBootstrap == \E n \in bootstrapped : BootstrapStart(n, NameOf(n))

\* C8: Bootstrap on a machine where Bootstrap has succeeded fails with a
\* precondition error and changes neither raft_nodes, the registry, the
\* certificate files, the gateway nor the lock.
C8_SecondBootstrapRefused ==
    [][SecondBootstrap =>
        /\ pc' = "done"
        /\ err' \in {"leftover cluster certificate", "already part of a cluster"}
        /\ UNCHANGED <<raftNodes, nodes, roster, certs, gw, lock>>]_vars

\* A second Bootstrap has just been refused.
C8_Refused ==
    /\ opName = "Bootstrap" /\ opNode \in bootstrapped /\ pc = "done"
    /\ err = "leftover cluster certificate"

\* C9: the events of one Bootstrap, Join or Assign come in the order
\* preconditions, reconfiguration, leader RPC, commit, heartbeat: a heartbeat
\* has the commit before it, and no operation whose reconciling transaction
\* failed has sent one.
C9_HeartbeatAfterCommit ==
    /\ \A i, j \in DOMAIN trace :
          /\ (trace[i] = "tx" /\ trace[j] \in {"enter", "shutdown", "wipe", "init"}) => i < j
          /\ (trace[i] \in {"shutdown", "wipe", "init"} /\ trace[j] = "rpc") => i < j
          /\ (trace[i] = "rpc" /\ trace[j] \in {"commit", "abort"}) => i < j
          /\ (trace[i] = "commit" /\ trace[j] = "heartbeat") => i < j
    /\ "heartbeat" \in Events => ("commit" \in Events /\ "abort" \notin Events)

\* The positions of Bootstrap, Join and Assign between EnterExclusive and the
\* end of ExitExclusive, Assign having found no engine running.
Exclusive == {"b_reconf", "b_exit", "j_reconf", "j_exit", "a_reconf", "a_rpc_x", "a_exit_x"}

\* The positions of the leader RPC and the reconciling transaction of an
\* Assign that found the engine running.
Direct == {"a_rpc", "a_exit"}

\* Between the positions of P the lock of the machine is held, and no
\* transaction of another operation has run on that machine.
LockedAt(P) ==
    pc \in P => (lock[opNode] /\ (ret.at = opNode => ret.txs = 0))

\* C10: in Bootstrap, in Join, and in an Assign that found no engine running,
\* the reconfiguration of the gateway, the leader RPC and the reconciling
\* transaction happen with the exclusive lock held, and no transaction of
\* another operation runs on that machine in between.
C10_ExclusiveWhileReconfiguring == LockedAt(Exclusive)

\* An Assign that found no engine running is between its leader RPC and its
\* reconciling transaction.
C10_AssignReconfigured == opName = "Assign" /\ pc = "a_exit_x" /\ "rpc" \in Events

\* C10 as stated: the same in every Assign, also one that found the engine
\* running.
C10_ExclusiveInEveryAssign == LockedAt(Exclusive \cup Direct)

\* C11: a Bootstrap or Join that returns an error after its preconditions
\* held (so the local raft_nodes was empty when it was called) leaves the
\* local raft_nodes as it was: empty.
C11_CleanAbort ==
    (/\ opName \in {"Bootstrap", "Join"} /\ pc = "done" /\ err # "none"
     /\ "tx" \in Events)
    => raftNodes[opNode] = <<>>

\* The last call of Rebalance, Handover or Accept.
Last == calls[Len(calls)]

\* The operation op has just returned.
Returned(op) == calls # <<>> /\ ret.op = op /\ Last.op = op

\* Whether the member at address a had a registry row, a fresh heartbeat or
\* an answer to the probe when the last call was made.
Reachable(a) == NodeByAddress(a) # {} /\ a \notin Last.dead

\* C12: Rebalance never applies the promotion it proposes. The only roles it
\* changes are those of the roster entries that are not spare and whose
\* member is unreachable, which become spare, and the database role of
\* their registry rows, which is removed.
C12_RebalanceOnlyDemotes ==
    Returned("Rebalance") =>
        /\ DOMAIN roster = DOMAIN Last.roster
        /\ \A i \in DOMAIN roster :
              \/ roster[i] = Last.roster[i]
              \/ /\ Last.roster[i].role # RaftSpare
                 /\ ~Reachable(roster[i].address)
                 /\ roster[i] = [Last.roster[i] EXCEPT !.role = RaftSpare]
        /\ \A m \in Last.nodes :
              \/ m \in nodes
              \/ /\ m.database
                 /\ ~Reachable(m.address)
                 /\ [m EXCEPT !.database = FALSE] \in nodes
        /\ Cardinality(nodes) = Cardinality(Last.nodes)

\* A Rebalance has demoted a member and proposed the promotion of another.
C12_DemotedAndProposed ==
    /\ Returned("Rebalance") /\ ret.err = "none" /\ ret.address # ""
    /\ roster # Last.roster
    /\ nodes # Last.nodes
    /\ ret.roster # roster

\* C12 as stated: Rebalance leaves every role of the roster and of the
\* registry as it found it.
C12_RebalanceChangesNothing ==
    Returned("Rebalance") => (roster = Last.roster /\ nodes = Last.nodes)

\* C13: when the roster, after the demotions, has exactly one voter,
\* Rebalance returns an empty address.
C13_OneVoterNothingToDo ==
    (Returned("Rebalance") /\ ret.err = "none" /\ Count(roster, RaftVoter) = 1)
    => ret.address = ""

\* C14: when Rebalance has returned an empty address and is called again
\* with the same roster, registry, heartbeats and probe outcomes, the second
\* call returns an empty address too and changes nothing.
C14_RebalanceFixedPoint ==
    (/\ Len(calls) = 2
     /\ calls[1].op = "Rebalance"
     /\ calls[1].err = "none" /\ calls[1].address = ""
     /\ calls[2].err = "none")
    => (calls[2].address = "" /\ roster = calls[2].roster /\ nodes = calls[2].nodes)

\* The addresses of the entries of r with the given role, in roster order.
InOrder(r, role) == ByRole(r, role, {}, 1)

\* C15: when the roster after the demotions has more than one and fewer than
\* MaxVoters voters, Rebalance returns the first stand-by, or the first spare
\* if there is no stand-by; otherwise, when it has fewer than MaxStandBys
\* stand-bys, the first spare. The roster it returns is the roster with the
\* role of that entry changed. A member demoted by this call is no candidate.
C15_FirstCandidate ==
    (Returned("Rebalance") /\ ret.err = "none") =>
        LET D == {i \in DOMAIN roster : roster[i] # Last.roster[i]}
            voters == Count(roster, RaftVoter)
            toVoter == voters > 1 /\ voters < MaxVoters
            toStandBy == ~toVoter /\ Count(roster, RaftStandBy) < MaxStandBys
            candidates == IF toVoter
                          THEN InOrder(roster, RaftStandBy) \o ByRole(roster, RaftSpare, D, 1)
                          ELSE ByRole(roster, RaftSpare, D, 1)
        IN  (candidates # <<>> /\ (toVoter \/ toStandBy)) =>
                /\ ret.address = candidates[1]
                /\ ret.roster = SetRoleAt(roster, FirstAt(roster, candidates[1]),
                                          IF toVoter THEN RaftVoter ELSE RaftStandBy)

\* The indexes of the roster entries that were not spare and whose member
\* was unreachable when the last call was made.
Offline == {i \in DOMAIN Last.roster : /\ Last.roster[i].role # RaftSpare
                                       /\ ~Reachable(Last.roster[i].address)}

\* C16: Rebalance makes a roster entry spare before it removes the database
\* role of its row. When it succeeds, every entry that was not spare and
\* whose member had a stale heartbeat and failed the probe is spare, its row
\* has no database role, it is not the one proposed, and the proposed role is
\* chosen by the number of voters left after the demotions. No other entry
\* is changed: a member that answers the probe is not demoted.
C16_OfflineDemotedFirst ==
    Returned("Rebalance") =>
        /\ \A m \in Last.nodes \ nodes :
              \E i \in DOMAIN roster : /\ roster[i].address = m.address
                                       /\ roster[i].role = RaftSpare
        /\ \A i \in DOMAIN roster \ Offline : roster[i] = Last.roster[i]
        /\ ret.err = "none" =>
              /\ \A i \in Offline :
                    /\ roster[i].role = RaftSpare
                    /\ \A m \in nodes : m.address = roster[i].address => ~m.database
                    /\ ret.address # roster[i].address
              /\ ret.address # "" =>
                    ret.roster[FirstAt(ret.roster, ret.address)].role =
                        IF Count(roster, RaftVoter) > 1 /\ Count(roster, RaftVoter) < MaxVoters
                        THEN RaftVoter ELSE RaftStandBy

\* Of the roster voter, voter, voter, spare the third member was offline:
\* Rebalance has demoted it and proposed the spare as voter.
C16_SpareReplacesOfflineVoter ==
    /\ Returned("Rebalance") /\ ret.err = "none"
    /\ [i \in DOMAIN Last.roster |-> Last.roster[i].role]
           = <<RaftVoter, RaftVoter, RaftVoter, RaftSpare>>
    /\ Last.dead = {"a3"}
    /\ roster[3].role = RaftSpare
    /\ \A m \in nodes : m.address = "a3" => ~m.database
    /\ ret.address = "a4"
    /\ ret.roster[4].role = RaftVoter

\* Whether the member at address a had a registry row and a fresh heartbeat
\* or an answer to the probe when the last call was made.
Online(a) == NodeByAddress(a) # {} /\ (a \notin Last.stale \/ a \notin Last.dead)

\* C17: the node Rebalance proposes is online, is a member of the registry,
\* and has not been demoted by this call.
C17_ProposedIsOnline ==
    (Returned("Rebalance") /\ ret.err = "none" /\ ret.address # "") =>
        /\ Online(ret.address)
        /\ \A i \in DOMAIN roster : roster[i].address = ret.address => i \notin Offline

\* C18: Handover returns an error when no roster entry has the address, and
\* an empty address and no error when the entry is not a voter.
C18_AbsentAddressIsAnError ==
    Returned("Handover") =>
        /\ Last.arg \notin Addresses(roster) => ret.err # "none"
        /\ (/\ Last.arg \in Addresses(roster)
            /\ roster[FirstAt(roster, Last.arg)].role # RaftVoter)
           => (/\ ret.address = ""
               /\ ret.err \in {"none", "failed to get current raft nodes"})

\* The entries that can replace the leaving member of the last Handover.
Eligible == {i \in DOMAIN roster : /\ roster[i].role # RaftVoter
                                   /\ roster[i].address # Last.arg
                                   /\ Online(roster[i].address)}

\* C19: Handover changes neither the roster nor the registry. When the
\* leaving member is a voter and Handover returns no error, it returns the
\* first entry in roster order that is not a voter, not the leaving member
\* and online, with a roster in which only the role of that entry is changed,
\* to voter; it returns an empty address when there is no such entry.
C19_FirstOnlineNonVoter ==
    Returned("Handover") =>
        /\ roster = Last.roster
        /\ nodes = Last.nodes
        /\ (/\ ret.err = "none"
            /\ Last.arg \in Addresses(roster)
            /\ roster[FirstAt(roster, Last.arg)].role = RaftVoter)
           => IF Eligible = {} THEN ret.address = ""
              ELSE LET k == CHOOSE i \in Eligible : \A j \in Eligible : i <= j
                   IN  /\ ret.address = roster[k].address
                       /\ ret.roster = [i \in DOMAIN roster |->
                                          IF i = k THEN [roster[i] EXCEPT !.role = RaftVoter]
                                          ELSE roster[i]]

\* Handover has passed over an offline member and returned the next one.
C19_OfflineSkipped ==
    /\ Returned("Handover") /\ ret.err = "none" /\ ret.address # ""
    /\ \E j \in DOMAIN roster :
          /\ j < FirstAt(roster, ret.address)
          /\ roster[j].role # RaftVoter
          /\ roster[j].address # Last.arg
          /\ roster[j].address \in Last.dead

Compared == {m \in Last.nodes : ~m.pending}

\* C21: Accept fails and leaves the registry as it is when clustering is not
\* enabled or when a member has another schema or another number of API
\* extensions than those passed; after a successful Accept every member has
\* the schema and the API extensions that were passed, and so has the new row.
C21_AcceptChecksVersions ==
    Returned("Accept") =>
        /\ (\/ Cardinality(Compared) = 1 /\ (\E m \in Compared : m.address = Unclustered)
            \/ \E m \in Compared : m.schema # Last.schema \/ m.api # Last.api)
           => (ret.err # "none" /\ nodes = Last.nodes)
        /\ ret.err = "none" =>
              /\ nodes # Last.nodes
              /\ \A m \in Members \cup (nodes \ Last.nodes) :
                    m.schema = Last.schema /\ m.api = Last.api

\* Accept has refused a node because a member of an enabled cluster has
\* another version, and has inserted nothing.
C21_VersionRefused ==
    /\ Returned("Accept")
    /\ ret.err = "the joining server version doesn't match"
    /\ Len(roster) > 1
    /\ \E m \in Compared : m.schema = Last.schema
    /\ \E m \in Compared : m.schema # Last.schema
    /\ nodes = Last.nodes

\* C22: the raft node a Join sends to the leader, and whose role decides on
\* the database role, is the entry of the roster it was given that has the
\* local cluster address, wherever that entry is in the roster.
C22_JoinSendsOwnEntry ==
    (opName = "Join" /\ info # NoInfo) =>
        /\ info.address = clusterAddress[opNode]
        /\ \E i \in DOMAIN args.roster : args.roster[i] = info

\* The member the last Leave was asked to remove, as the registry had it.
Leaver == {m \in Last.nodes : ~m.pending /\ m.name = Last.name}

\* C23: Leave leaves the registry as it is. When the address of the member is
\* in no roster entry and the roster can be read, Leave returns the address
\* and leaves the roster as it is; otherwise a successful Leave removes the
\* roster entry with that address and no other.
C23_LeaveRemovesOneEntry ==
    Returned("Leave") =>
        /\ nodes = Last.nodes
        /\ ret.err # "none" => roster = Last.roster
        /\ ret.err = "none" =>
              /\ \E m \in Leaver : ret.address = m.address
              /\ roster = SelectSeq(Last.roster, LAMBDA e : e.address # ret.address)
              /\ Len(roster) >= Len(Last.roster) - 1
        /\ \A m \in Leaver :
              (/\ m.address \notin Addresses(Last.roster)
               /\ Last.force \/ membershipCheckClusterStateForLeave(Last.busy) = "none"
               /\ ret.err # "failed to get raft nodes")
              => (ret.err = "none" /\ ret.address = m.address /\ roster = Last.roster)

\* A member has left the roster and its row is as it was; asked to leave
\* again, it is in no roster entry and Leave has returned its address.
C23_LeftTwice ==
    /\ Len(calls) = 2
    /\ Returned("Leave") /\ ret.err = "none"
    /\ calls[1].err = "none"
    /\ Len(calls[2].roster) = Len(calls[1].roster) - 1
    /\ roster = calls[2].roster
    /\ nodes = calls[1].nodes

C25_LocalPreconditions ==
    [][(opName = "none" /\ opName' \in {"Bootstrap", "Join"}) =>
          LET n == opNode'
              ready == clusterAddress[n] # "" /\ raftNodes[n] = <<>>
          IN  /\ ~ready => /\ pc' = "done"
                            /\ err' # "none"
                            /\ trace' = <<>>
                            /\ UNCHANGED <<raftNodes, nodes, roster, nextId, lock, gw>>
              /\ (raftNodes' # raftNodes \/ nodes' # nodes \/ pc' \notin {"done", "hung"})
                    => ready]_vars

\* A machine without cluster address that has entries in raft_nodes has been
\* refused, and holds no lock.
C25_LeftoverRefused ==
    /\ opName \in {"Bootstrap", "Join"} /\ pc = "done"
    /\ err = "leftover entries in raft_nodes"
    /\ clusterAddress[opNode] = "" /\ raftNodes[opNode] # <<>>
    /\ ~lock[opNode]
    /\ trace = <<>>

\* C26: an operation that initializes the gateway has, before that and in
\* this order, taken the exclusive lock, shut the gateway down and wiped the
\* consensus data directory.
C26_FullReconfigureCycle ==
    \A j \in DOMAIN trace :
        trace[j] = "init" =>
            \E e, sh, w \in 1..j :
                /\ e < sh /\ sh < w /\ w < j
                /\ trace[e] = "enter" /\ trace[sh] = "shutdown" /\ trace[w] = "wipe"

\* C27: an Accept that returns a roster has inserted the pending row of the
\* new member; an Accept that returns an error has left the registry as it
\* was.
C27_AcceptAllOrNothing ==
    Returned("Accept") =>
        IF ret.err = "none"
        THEN \E m \in nodes \ Last.nodes :
                m.pending /\ m.name = Last.name /\ m.address = Last.arg
        ELSE nodes = Last.nodes

====
